---- MODULE Spec2Model ----
(***************************************************************************)
(* Model of the kingland-website edge server (src/src/main.rs): the        *)
(* request handler `service` (canonical redirect rules, route table,       *)
(* favicon selection) and the values it works on, and `main` (startup,     *)
(* the two accept loops, one task per connection).  Strings are TLA+       *)
(* strings; a character is a string of length one.                         *)
(*   SpecService  one call of `service`                                    *)
(*   SpecFavicon  the favicon selection on a query string                  *)
(*   Spec         the process: startup, accept loops, connection tasks     *)
(*   FairSpec     Spec with the accept loops' spawn step weakly fair       *)
(*   SpecFollow   `service` answering a client that follows redirects      *)
(***************************************************************************)
EXTENDS Integers, Sequences, FiniteSets, TLC

VARIABLES
    debug_assertions,   \* the build configuration: TRUE = cfg(debug_assertions)
    protocol,           \* the Protocol the handler was called with
    req,                \* the request handed to the handler
    resp,               \* None before the handler ran, Some(outcome) after
    query,              \* the optional query string given to the favicon selection
    selected,           \* None before the selection ran, Some(result) after
    pc,                 \* "request" | "handled" | "query" | "selected" | "follow" | "arrived" | "server"
    main_pc,            \* where `main` stands; "off" when no process is modelled
    cert_file,          \* the embedded certificate file, as rustls_pemfile::certs reads it
    key_file,           \* the embedded key file, as pkcs8_private_keys reads it
    listeners,          \* the ports of the bound listening sockets
    tls_config,         \* None, or Some(the ServerConfig behind the TlsAcceptor)
    acceptor,           \* per Protocol: the accept loop's position and the stream it holds
    conns,              \* per connection: its state, the port it came in on, its task
    answers,            \* the exchanges completed so far: request, protocol, outcome
    trail,              \* the redirect rules a redirect-following client has met, in order
    start               \* the URL such a client started from

handlerVars == <<protocol, req, resp, query, selected, pc>>
serverVars == <<main_pc, cert_file, key_file, listeners, tls_config, acceptor, conns, answers>>
followVars == <<trail, start>>

vars == <<debug_assertions, handlerVars, serverVars, followVars>>

\* ---------------------------------------------------------------- options
None == <<>>
Some(x) == <<x>>

\* ---------------------------------------------------------------- strings
\* str::contains
Contains(s, pat) ==
    \E i \in 1..(Len(s) - Len(pat) + 1) : SubSeq(s, i, i + Len(pat) - 1) = pat

\* str::split_once: the parts before and after the first occurrence of pat,
\* found by scanning from the left; None when pat does not occur.
RECURSIVE SplitFrom(_, _, _)
SplitFrom(s, pat, i) ==
    IF i + Len(pat) - 1 > Len(s) THEN None
    ELSE IF SubSeq(s, i, i + Len(pat) - 1) = pat
         THEN Some(<<SubSeq(s, 1, i - 1), SubSeq(s, i + Len(pat), Len(s))>>)
         ELSE SplitFrom(s, pat, i + 1)

\* (a variant that splits at the last occurrence, as str::rsplit_once does)
split_once_last(s, pat) ==
    IF ~Contains(s, pat) THEN None
    ELSE LET last == Len(s) - Len(pat) + 1
             i == CHOOSE k \in 1..last :
                    /\ SubSeq(s, k, k + Len(pat) - 1) = pat
                    /\ \A m \in (k + 1)..last : SubSeq(s, m, m + Len(pat) - 1) # pat
         IN Some(<<SubSeq(s, 1, i - 1), SubSeq(s, i + Len(pat), Len(s))>>)

split_once(s, pat) == SplitFrom(s, pat, 1)

UpperCase == "ABCDEFGHIJKLMNOPQRSTUVWXYZ"
LowerCase == "abcdefghijklmnopqrstuvwxyz"

LowerChar(c) ==
    IF \E i \in 1..Len(UpperCase) : SubSeq(UpperCase, i, i) = c
    THEN LET i == CHOOSE k \in 1..Len(UpperCase) : SubSeq(UpperCase, k, k) = c
         IN SubSeq(LowerCase, i, i)
    ELSE c

\* str::to_lowercase
RECURSIVE to_lowercase(_)
to_lowercase(s) ==
    IF s = "" THEN ""
    ELSE LowerChar(SubSeq(s, 1, 1)) \o to_lowercase(SubSeq(s, 2, Len(s)))

WhiteSpace == {" ", "\t", "\n", "\r", "\f"}

\* str::trim: leading and trailing white space removed
RECURSIVE trim_start(_)
trim_start(s) ==
    IF s # "" /\ SubSeq(s, 1, 1) \in WhiteSpace
    THEN trim_start(SubSeq(s, 2, Len(s)))
    ELSE s

RECURSIVE trim_end(_)
trim_end(s) ==
    IF s # "" /\ SubSeq(s, Len(s), Len(s)) \in WhiteSpace
    THEN trim_end(SubSeq(s, 1, Len(s) - 1))
    ELSE s

trim(s) == trim_end(trim_start(s))

\* ---------------------------------------------------------------- values
\* enum Protocol and its Display implementation
Protocol == {"HTTP", "HTTPS"}

ProtocolFmt(p) == IF p = "HTTP" THEN "http" ELSE "https"

\* the canonical domain of the release build
MAIN_DOMAIN == "kingland.id"

\* the invite the /discord routes redirect to
InviteUrl == "https://discord.gg/PEsARGFup7"

\* The embedded payloads (include_bytes!/include_str!).  The files are build
\* inputs; each is a fixed byte string, given here with white space at both
\* ends so that trimming one is visible.
AppleTouchIconPng == "\nPNG apple-touch-icon \n"
Favicon16Png == " PNG favicon-16x16\n"
Favicon32Png == "\tPNG favicon-32x32 "
IndexHtml == "\n <html> kingland </html> \n"

\* http::HeaderValue::to_str succeeds on visible ASCII (32..126) and tab only.
\* (The double quote and the backquote are left out: no modelled value has one.)
VisibleAscii ==
    " !#$%&'()*+,-./0123456789:;<=>?@ABCDEFGHIJKLMNOPQRSTUVWXYZ[\\]^_abcdefghijklmnopqrstuvwxyz{|}~\t"

VisibleAsciiChars == {SubSeq(VisibleAscii, k, k) : k \in 1..Len(VisibleAscii)}

to_str_ok(bytes) == \A i \in 1..Len(bytes) : SubSeq(bytes, i, i) \in VisibleAsciiChars

\* HeaderValue::try_from(String) refuses control characters other than tab
ControlChars == {"\n", "\r", "\f"}

header_value_ok(s) == \A i \in 1..Len(s) : SubSeq(s, i, i) \notin ControlChars

\* http::Uri: Uri::path, Uri::query and its Display, which writes the scheme
\* and the authority of an absolute-form request target before the path.
UriPath(uri) == uri.path

UriQuery(uri) == uri.query

UriToString(uri) ==
    (IF uri.scheme = None THEN "" ELSE uri.scheme[1] \o "://")
    \o (IF uri.authority = None THEN "" ELSE uri.authority[1])
    \o UriPath(uri)
    \o (IF UriQuery(uri) = None THEN "" ELSE "?" \o UriQuery(uri)[1])

\* req.headers().get("host"): None when the request carries no Host header
HeaderGetHost(r) == r.host

\* ---------------------------------------------------------------- responses
\* The outcome of one call of `service`.  `site` names the statement that
\* produced it.  A panic unwinds the connection's task: no response is written.
Response(status, location, body, site) ==
    [kind |-> "response", status |-> status, location |-> location,
     body |-> body, site |-> site]

Panic(site) ==
    [kind |-> "panic", status |-> 0, location |-> None, body |-> "", site |-> site]

\* macro respond_text!
respond_text(v) == trim(v)

\* macro redirect!: Response::builder().header("location", d).status(301).body(..).unwrap()
redirect(destination, site) ==
    IF header_value_ok(destination)
    THEN Response(301, Some(destination), respond_text(""), site)
    ELSE Panic(site)

\* ---------------------------------------------------------------- favicons
\* impl FromStr for FaviconType: Some(variant), or None for Err(FaviconTypeParseError)
from_str(s) ==
    LET l == to_lowercase(s)
    IN  IF Contains(l, "apple") THEN Some("AppleTouch")
        ELSE IF Contains(l, "favicon16") THEN Some("Favicon16")
        ELSE IF Contains(l, "favicon32") THEN Some("Favicon32")
        ELSE None

\* (a variant that takes the text after the last "t=")
favicon_type_last(q) ==
    IF q = None THEN None
    ELSE IF ~Contains(q[1], "t=") THEN None
    ELSE LET after == split_once_last(q[1], "t=")[1][2]
             value == IF Contains(after, "&") THEN split_once(after, "&")[1][1] ELSE after
         IN  from_str(value)

\* The first part of the closure of the /favicon route: the variant the query
\* selects, None when the closure returns None before or at the parse.
favicon_type(q) ==
    IF q = None THEN None
    ELSE IF ~Contains(q[1], "t=") THEN None
    ELSE LET after == split_once(q[1], "t=")[1][2]
             value == IF Contains(after, "&") THEN split_once(after, "&")[1][1] ELSE after
         IN  from_str(value)

\* The match on the parsed variant: the embedded bytes, untrimmed
favicon_bytes(variant) ==
    CASE variant = "AppleTouch" -> AppleTouchIconPng
      [] variant = "Favicon16" -> Favicon16Png
      [] variant = "Favicon32" -> Favicon32Png

\* The closure's value: Some(bytes) or None
favicon_result(q) ==
    LET v == favicon_type(q)
    IN  IF v = None THEN None ELSE Some(favicon_bytes(v[1]))

\* ---------------------------------------------------------------- handler
\* The block under cfg(not(debug_assertions)): the first rule that matches
\* gives the target, None when none matches.
RedirectPolicy(host, uri, p) ==
    IF ~Contains(host, MAIN_DOMAIN)
    THEN Some([target |-> ProtocolFmt(p) \o "://" \o MAIN_DOMAIN \o uri, site |-> "rule1"])
    ELSE IF ~Contains(host, "www.")
    THEN Some([target |-> ProtocolFmt(p) \o "://www." \o MAIN_DOMAIN \o uri, site |-> "rule2"])
    ELSE IF p = "HTTP"
    THEN Some([target |-> "https://" \o host \o uri, site |-> "rule3"])
    ELSE None

InvitePaths == {"/discord", "/dc", "/invite", "/invites"}

\* The final expression of `service`: the landing page
default_response == Response(200, None, respond_text(IndexHtml), "default")

\* match (req.method(), req.uri().path()) and what follows it
dispatch(r) ==
    IF r.method = "GET" /\ UriPath(r.uri) = "/favicon"
    THEN LET result == favicon_result(UriQuery(r.uri))
         IN  IF result # None
             THEN Response(200, None, result[1], "favicon")
             ELSE default_response
    ELSE IF r.method = "GET" /\ UriPath(r.uri) \in InvitePaths
    THEN redirect(InviteUrl, "invite")
    ELSE default_response

\* (a variant that matches the favicon and invite routes before the redirect rules)
service_routes_first(r, p) ==
    LET h == HeaderGetHost(r)
    IN  IF h = None \/ ~to_str_ok(h[1]) THEN Panic("host")
        ELSE LET d == IF debug_assertions THEN None
                      ELSE RedirectPolicy(h[1], UriToString(r.uri), p)
                 routed == dispatch(r)
             IN  IF routed.site # "default" \/ d = None THEN routed
                 ELSE redirect(d[1].target, d[1].site)

\* async fn service(req, protocol)
service(r, p) ==
    LET h == HeaderGetHost(r)
    IN  IF h = None \/ ~to_str_ok(h[1]) THEN Panic("host")
        ELSE LET host == h[1]
                 uri == UriToString(r.uri)
                 d == IF debug_assertions THEN None ELSE RedirectPolicy(host, uri, p)
             IN  IF d # None
                 THEN redirect(d[1].target, d[1].site)
                 ELSE dispatch(r)

\* ---------------------------------------------------------------- inputs
Methods == {"GET", "POST"}

Paths == {"/", "/favicon", "/discord", "/dc", "/invite", "/invites", "/dcx", "/x"}

RequestQueries == {None, Some("t=apple"), Some("t=Favicon16&x=1"),
                   Some("x=1&t=favicon32"), Some("x=1")}

\* origin-form request targets, and absolute-form ones (which a server must accept)
Uris ==
    [scheme : {None}, authority : {None}, path : Paths, query : RequestQueries]
    \cup [scheme : {Some("http")}, authority : {Some("example.org")},
          path : Paths, query : RequestQueries]

\* Host header values; the last three hold the byte 0xFF (obs-text), written as U+00FF
Hosts == {"example.org", "www.example.org", "kingland.id", "www.kingland.id",
          "www.kingland.id:443", "wwwkingland.id", "WWW.KINGLAND.ID",
          "exÿmple.org", "kingland.idÿ", "www.kingland.idÿ"}

Requests == [method : Methods, uri : Uris, host : {None} \cup {Some(h) : h \in Hosts}]

\* The build exists in two configurations; the debug one has no HTTPS listener.
Builds ==
    {[debug |-> TRUE, protocol |-> "HTTP"]} \cup [debug : {FALSE}, protocol : Protocol]

MaxFragments == 3

QueryFragments == {"t=", "&", "apple", "FAVICON16", "Favicon32", "x=", "t", "="}

RECURSIVE Join(_)
Join(fs) == IF fs = <<>> THEN "" ELSE Head(fs) \o Join(Tail(fs))

Queries ==
    {None} \cup
    {Some(Join(fs)) : fs \in UNION {[1..n -> QueryFragments] : n \in 0..MaxFragments}}

AnyRequest == [method |-> "GET",
               uri |-> [scheme |-> None, authority |-> None, path |-> "/", query |-> None],
               host |-> None]

\* ---------------------------------------------------------------- the process
MaxConns == 2
MaxPemEntries == 1

ConnIds == 1..MaxConns

\* What the PEM readers return for an embedded file: Err, or Ok with the
\* entries found (none for a file that holds no section of the wanted kind).
PemFiles == {[ok |-> FALSE, entries |-> 0]} \cup [ok : {TRUE}, entries : 0..MaxPemEntries]

\* the ports of http_addr and https_addr
HttpPort == 80
HttpsPort == 443

\* the listener each accept loop owns
ListenerPort(p) == IF p = "HTTP" THEN HttpPort ELSE HttpsPort

handler_protocol_plain(p) == "HTTP"

\* the Protocol the tasks spawned by accept loop p hand to `service`
handler_protocol(p) == p

\* whether the tasks spawned by accept loop p run acceptor.accept(stream) first
runs_tls(p) == p = "HTTPS"

task_panic_aborts(m) == "exited"

\* A panic in a task spawned with tokio::spawn ends that task; `main` goes on.
task_panic(m) == m

\* ServerConfig::with_single_cert: Ok, or Err when the library cannot make a
\* server identity of the chain and the key.
WithSingleCertOutcomes == {"ok", "err"}

NoConn == [state |-> "none", port |-> 0, task |-> "none", tls |-> FALSE, inflight |-> None]

NoAcceptor == [pc |-> "off", stream |-> 0]

\* the requests the peers of the modelled connections send
ServedRequests ==
    {r \in Requests :
        /\ r.method = "GET"
        /\ r.uri.scheme = None
        /\ r.uri.query = None
        /\ \/ r.host = None /\ r.uri.path = "/"
           \/ r.host = Some("www.kingland.id") /\ r.uri.path = "/dc"}

HandlerIdle ==
    /\ protocol = "HTTP"
    /\ req = AnyRequest
    /\ resp = None
    /\ query = None
    /\ selected = None

FollowIdle ==
    /\ trail = <<>>
    /\ start = None

ServerOff ==
    /\ main_pc = "off"
    /\ cert_file = [ok |-> FALSE, entries |-> 0]
    /\ key_file = [ok |-> FALSE, entries |-> 0]
    /\ listeners = {}
    /\ tls_config = None
    /\ acceptor = [p \in Protocol |-> NoAcceptor]
    /\ conns = [c \in ConnIds |-> NoConn]
    /\ answers = {}

Alive == main_pc \notin {"off", "exited"}

\* the state of `main` when it is entered
Init ==
    /\ debug_assertions \in BOOLEAN
    /\ HandlerIdle
    /\ pc = "server"
    /\ FollowIdle
    /\ main_pc = "bind_http"
    /\ cert_file \in PemFiles
    /\ key_file \in PemFiles
    /\ listeners = {}
    /\ tls_config = None
    /\ acceptor = [p \in Protocol |-> NoAcceptor]
    /\ conns = [c \in ConnIds |-> NoConn]
    /\ answers = {}

Static == UNCHANGED <<debug_assertions, handlerVars, followVars, cert_file, key_file>>

\* A panic of `main` ends the process and with it every socket and task.
MainPanics ==
    /\ main_pc' = "exited"
    /\ listeners' = {}
    /\ UNCHANGED <<tls_config, acceptor, conns, answers>>

\* TcpListener::bind(http_addr).await.expect(..)
BindHttp ==
    /\ main_pc = "bind_http"
    /\ \/ /\ listeners' = listeners \cup {HttpPort}
          /\ main_pc' = IF debug_assertions THEN "certs" ELSE "bind_https"
          /\ UNCHANGED <<tls_config, acceptor, conns, answers>>
       \/ MainPanics
    /\ Static

\* TcpListener::bind(https_addr).await.expect(..), release build only
BindHttps ==
    /\ main_pc = "bind_https"
    /\ \/ /\ listeners' = listeners \cup {HttpsPort}
          /\ main_pc' = "certs"
          /\ UNCHANGED <<tls_config, acceptor, conns, answers>>
       \/ MainPanics
    /\ Static

\* certs(..).map_err(..).map(..).unwrap()
LoadCerts ==
    /\ main_pc = "certs"
    /\ IF cert_file.ok
       THEN main_pc' = "keys" /\ UNCHANGED <<listeners, tls_config, acceptor, conns, answers>>
       ELSE MainPanics
    /\ Static

\* pkcs8_private_keys(..).map_err(..).map(..).unwrap()
LoadKeys ==
    /\ main_pc = "keys"
    /\ IF key_file.ok
       THEN main_pc' = "config" /\ UNCHANGED <<listeners, tls_config, acceptor, conns, answers>>
       ELSE MainPanics
    /\ Static

\* ServerConfig::builder()...with_single_cert(certs, keys.remove(0))..unwrap()
\* and TlsAcceptor::from; keys.remove(0) panics on an empty vector.
BuildConfig ==
    /\ main_pc = "config"
    /\ IF key_file.entries = 0
       THEN MainPanics
       ELSE \E outcome \in WithSingleCertOutcomes :
               IF outcome = "ok"
               THEN /\ tls_config' = Some([chain |-> cert_file.entries, key |-> 1])
                    /\ main_pc' = "spawn_http"
                    /\ UNCHANGED <<listeners, acceptor, conns, answers>>
               ELSE MainPanics
    /\ Static

\* the first tokio::spawn: the accept loop of http_listener
SpawnHttpLoop ==
    /\ main_pc = "spawn_http"
    /\ acceptor' = [acceptor EXCEPT !["HTTP"] = [pc |-> "accept", stream |-> 0]]
    /\ main_pc' = IF debug_assertions THEN "loop" ELSE "spawn_https"
    /\ UNCHANGED <<listeners, tls_config, conns, answers>>
    /\ Static

\* the second tokio::spawn, release build only: the accept loop of https_listener
SpawnHttpsLoop ==
    /\ main_pc = "spawn_https"
    /\ acceptor' = [acceptor EXCEPT !["HTTPS"] = [pc |-> "accept", stream |-> 0]]
    /\ main_pc' = "loop"
    /\ UNCHANGED <<listeners, tls_config, conns, answers>>
    /\ Static

admits_one_at_a_time(p) ==
    \A c \in ConnIds : conns[c].state \notin {"accepted", "handshake", "open"}

\* The accept loops hold no admission check: a stream is taken whenever one arrives.
admits(p) == TRUE

\* listener.accept().await returns a stream (connections are numbered as they come)
Accept(p) ==
    /\ Alive
    /\ acceptor[p].pc = "accept"
    /\ admits(p)
    /\ \E c \in ConnIds :
          /\ conns[c].state = "none"
          /\ \A d \in 1..(c - 1) : conns[d].state # "none"
          /\ conns' = [conns EXCEPT ![c] = [NoConn EXCEPT !.state = "accepted",
                                                          !.port = ListenerPort(p)]]
          /\ acceptor' = [acceptor EXCEPT ![p] = [pc |-> "spawn", stream |-> c]]
    /\ UNCHANGED <<main_pc, listeners, tls_config, answers>>
    /\ Static

\* listener.accept().await returns Err: .expect(..) panics in the loop's task,
\* and the unwinding drops the listener the task owns
AcceptFail(p) ==
    /\ Alive
    /\ acceptor[p].pc = "accept"
    /\ acceptor' = [acceptor EXCEPT ![p] = [pc |-> "panicked", stream |-> 0]]
    /\ listeners' = listeners \ {ListenerPort(p)}
    /\ main_pc' = task_panic(main_pc)
    /\ UNCHANGED <<tls_config, conns, answers>>
    /\ Static

loop_awaits_handler(p, c) == [pc |-> "join", stream |-> c]

\* The JoinHandle of the inner tokio::spawn is dropped: the loop goes round at once.
loop_after_spawn(p, c) == [pc |-> "accept", stream |-> 0]

\* the inner tokio::spawn: the stream gets its own task
SpawnHandler(p) ==
    /\ Alive
    /\ acceptor[p].pc = "spawn"
    /\ LET c == acceptor[p].stream
       IN  conns' = [conns EXCEPT ![c].task = p,
                                  ![c].tls = runs_tls(p),
                                  ![c].state = IF runs_tls(p) THEN "handshake" ELSE "open"]
    /\ acceptor' = [acceptor EXCEPT ![p] = loop_after_spawn(p, acceptor[p].stream)]
    /\ UNCHANGED <<main_pc, listeners, tls_config, answers>>
    /\ Static

\* acceptor.accept(https_stream).await is Ok
TlsHandshakeOk(c) ==
    /\ Alive
    /\ conns[c].state = "handshake"
    /\ conns' = [conns EXCEPT ![c].state = "open"]
    /\ UNCHANGED <<main_pc, listeners, tls_config, acceptor, answers>>
    /\ Static

\* acceptor.accept(https_stream).await is Err: .expect("Invalid TLS") panics in the task
TlsHandshakeFail(c) ==
    /\ Alive
    /\ conns[c].state = "handshake"
    /\ conns' = [conns EXCEPT ![c].state = "tls_failed"]
    /\ main_pc' = task_panic(main_pc)
    /\ UNCHANGED <<listeners, tls_config, acceptor, answers>>
    /\ Static

\* serve_connection reads the next request of the connection and calls the
\* service_fn closure, which attaches the task's Protocol
ParseRequest(c, r) ==
    /\ Alive
    /\ conns[c].state = "open"
    /\ conns[c].inflight = None
    /\ conns' = [conns EXCEPT ![c].inflight =
                    Some([req |-> r, protocol |-> handler_protocol(conns[c].task)])]
    /\ UNCHANGED <<main_pc, listeners, tls_config, acceptor, answers>>
    /\ Static

handler_outcome_remembered(c) ==
    IF answers = {} THEN service(conns[c].inflight[1].req, conns[c].inflight[1].protocol)
    ELSE (CHOOSE a \in answers : TRUE).out

\* the value of the `service` future for the request in hand
handler_outcome(c) == service(conns[c].inflight[1].req, conns[c].inflight[1].protocol)

\* `service` returns and the response is written, or it panics and the task unwinds
Respond(c) ==
    /\ Alive
    /\ conns[c].state = "open"
    /\ conns[c].inflight # None
    /\ LET out == handler_outcome(c)
       IN  /\ answers' = answers \cup {[req |-> conns[c].inflight[1].req,
                                        protocol |-> conns[c].inflight[1].protocol,
                                        out |-> out]}
           /\ IF out.kind = "panic"
              THEN /\ conns' = [conns EXCEPT ![c].inflight = None, ![c].state = "panicked"]
                   /\ main_pc' = task_panic(main_pc)
              ELSE /\ conns' = [conns EXCEPT ![c].inflight = None]
                   /\ UNCHANGED main_pc
    /\ UNCHANGED <<listeners, tls_config, acceptor>>
    /\ Static

\* the peer closes the connection: serve_connection returns and the task ends
PeerClose(c) ==
    /\ Alive
    /\ conns[c].state = "open"
    /\ conns[c].inflight = None
    /\ conns' = [conns EXCEPT ![c].state = "closed"]
    /\ UNCHANGED <<main_pc, listeners, tls_config, acceptor, answers>>
    /\ Static

\* serve_connection returns Err (bad framing, reset): eprintln!, the task ends
FramingError(c) ==
    /\ Alive
    /\ conns[c].state = "open"
    /\ conns[c].inflight = None
    /\ conns' = [conns EXCEPT ![c].state = "framing_error"]
    /\ UNCHANGED <<main_pc, listeners, tls_config, acceptor, answers>>
    /\ Static

Next ==
    \/ BindHttp
    \/ BindHttps
    \/ LoadCerts
    \/ LoadKeys
    \/ BuildConfig
    \/ SpawnHttpLoop
    \/ SpawnHttpsLoop
    \/ \E p \in Protocol : Accept(p)
    \/ \E p \in Protocol : AcceptFail(p)
    \/ \E p \in Protocol : SpawnHandler(p)
    \/ \E c \in ConnIds : TlsHandshakeOk(c)
    \/ \E c \in ConnIds : TlsHandshakeFail(c)
    \/ \E c \in ConnIds, r \in ServedRequests : ParseRequest(c, r)
    \/ \E c \in ConnIds : Respond(c)
    \/ \E c \in ConnIds : PeerClose(c)
    \/ \E c \in ConnIds : FramingError(c)

Spec == Init /\ [][Next]_vars

\* tokio runs a task that is ready: an accept loop that holds a stream spawns
\* its handler and goes round (no await lies between the two).
FairSpec == Spec /\ \A p \in Protocol : WF_vars(SpawnHandler(p))

\* ---------------------------------------------------------------- the handler, one call
InitService ==
    /\ \E b \in Builds : debug_assertions = b.debug /\ protocol = b.protocol
    /\ req \in Requests
    /\ resp = None
    /\ query = None
    /\ selected = None
    /\ pc = "request"
    /\ ServerOff
    /\ FollowIdle

Service ==
    /\ pc = "request"
    /\ resp' = Some(service(req, protocol))
    /\ pc' = "handled"
    /\ UNCHANGED <<debug_assertions, protocol, req, query, selected, serverVars, followVars>>

NextService == Service

SpecService == InitService /\ [][NextService]_vars

\* ---------------------------------------------------------------- the favicon selection
InitFavicon ==
    /\ debug_assertions = TRUE
    /\ protocol = "HTTP"
    /\ req = AnyRequest
    /\ resp = None
    /\ query \in Queries
    /\ selected = None
    /\ pc = "query"
    /\ ServerOff
    /\ FollowIdle

Select ==
    /\ pc = "query"
    /\ selected' = Some(favicon_type(query))
    /\ pc' = "selected"
    /\ UNCHANGED <<debug_assertions, protocol, req, resp, query, serverVars, followVars>>

NextFavicon == Select

SpecFavicon == InitFavicon /\ [][NextFavicon]_vars

\* ---------------------------------------------------------------- a client that follows redirects
MaxHops == 4

\* What a client makes of a location: scheme "://" host path ["?" query]
ParseLocation(l) ==
    LET s == split_once(l, "://")[1]
        host == IF Contains(s[2], "/") THEN split_once(s[2], "/")[1][1] ELSE s[2]
        rest == SubSeq(s[2], Len(host) + 1, Len(s[2]))
        cut == IF Contains(rest, "?") THEN split_once(rest, "?") ELSE None
    IN  [protocol |-> IF s[1] = "https" THEN "HTTPS" ELSE "HTTP",
         host |-> host,
         path |-> IF cut = None THEN rest ELSE cut[1][1],
         query |-> IF cut = None THEN None ELSE Some(cut[1][2])]

\* the request a client sends for a URL: origin-form target, Host from the URL
RequestFor(u) ==
    [method |-> "GET",
     uri |-> [scheme |-> None, authority |-> None, path |-> u.path, query |-> u.query],
     host |-> Some(u.host)]

StartUrls == [protocol : Protocol, host : Hosts, path : Paths, query : RequestQueries]

InitFollow ==
    /\ debug_assertions = FALSE
    /\ \E u \in StartUrls :
          /\ start = Some(u)
          /\ req = RequestFor(u)
          /\ protocol = u.protocol
    /\ resp = None
    /\ query = None
    /\ selected = None
    /\ trail = <<>>
    /\ pc = "follow"
    /\ ServerOff

\* The server answers with a redirect of the block at lines 74-85 and the
\* client sends the request again, to the host and scheme of the location.
FollowRedirect ==
    /\ pc = "follow"
    /\ Len(trail) < MaxHops
    /\ LET out == service(req, protocol)
       IN  /\ out.kind = "response"
           /\ out.site \in {"rule1", "rule2", "rule3"}
           /\ resp' = Some(out)
           /\ trail' = Append(trail, out.site)
           /\ LET u == ParseLocation(out.location[1])
              IN  req' = RequestFor(u) /\ protocol' = u.protocol
    /\ UNCHANGED <<debug_assertions, query, selected, pc, start, serverVars>>

\* The server answers from the match at line 87, or the handler panics: the
\* client has nothing further to follow.
Arrive ==
    /\ pc = "follow"
    /\ LET out == service(req, protocol)
       IN  /\ ~(out.kind = "response" /\ out.site \in {"rule1", "rule2", "rule3"})
           /\ resp' = Some(out)
    /\ pc' = "arrived"
    /\ UNCHANGED <<debug_assertions, protocol, req, query, selected, trail, start, serverVars>>

NextFollow == FollowRedirect \/ Arrive

SpecFollow == InitFollow /\ [][NextFollow]_vars

\* ---------------------------------------------------------------- properties
Handled == pc = "handled"
Out == resp[1]
Enforced == ~debug_assertions
HasHost == req.host # None
HostValue == req.host[1]

SchemeOf(p) == CASE p = "HTTP" -> "http" [] p = "HTTPS" -> "https"

\* the request's path and query, as the request line of an origin-form request gives them
PathAndQuery(uri) == uri.path \o (IF uri.query = None THEN "" ELSE "?" \o uri.query[1])

IsRedirectTo(o, target) ==
    o.kind = "response" /\ o.status = 301 /\ o.location = Some(target)

CanonicalRedirect(o) == o.kind = "response" /\ o.site \in {"rule1", "rule2", "rule3"}

ByDispatcher(o) == o.kind = "response" /\ o.site \in {"favicon", "invite", "default"}

IsInvite(o) ==
    /\ o.kind = "response"
    /\ o.status = 301
    /\ o.location = Some("https://discord.gg/PEsARGFup7")
    /\ o.body = ""

IsGet == req.method = "GET"

\* b is v without its leading and trailing white space
IsTrimOf(b, v) ==
    /\ b = "" \/ (SubSeq(b, 1, 1) \notin WhiteSpace /\ SubSeq(b, Len(b), Len(b)) \notin WhiteSpace)
    /\ \E i \in 1..(Len(v) - Len(b) + 1) :
          /\ SubSeq(v, i, i + Len(b) - 1) = b
          /\ \A k \in (1..(i - 1)) \cup ((i + Len(b))..Len(v)) : SubSeq(v, k, k) \in WhiteSpace

IsLandingPage(o) ==
    o.kind = "response" /\ o.status = 200 /\ IsTrimOf(o.body, IndexHtml)

\* C1: with enforcement on, a request whose Host value does not contain
\* kingland.id is answered by a redirect to {protocol}://kingland.id{path_and_query}.
C1_Rule1Target ==
    (Handled /\ Enforced /\ HasHost /\ ~Contains(HostValue, "kingland.id"))
        => IsRedirectTo(Out, SchemeOf(protocol) \o "://kingland.id" \o PathAndQuery(req.uri))

\* C2: with enforcement on, a request whose Host value contains kingland.id but
\* not "www." is answered by a redirect to {protocol}://www.kingland.id{path_and_query}.
C2_Rule2Target ==
    (Handled /\ Enforced /\ HasHost /\ Contains(HostValue, "kingland.id")
        /\ ~Contains(HostValue, "www."))
        => IsRedirectTo(Out, SchemeOf(protocol) \o "://www.kingland.id" \o PathAndQuery(req.uri))

\* C3: with enforcement on, a request on a PLAIN connection whose Host value
\* contains kingland.id and "www." is answered by a redirect to
\* https://{host}{path_and_query}, the Host value unchanged.
C3_Rule3Target ==
    (Handled /\ Enforced /\ HasHost /\ Contains(HostValue, "kingland.id")
        /\ Contains(HostValue, "www.") /\ protocol = "HTTP")
        => IsRedirectTo(Out, "https://" \o HostValue \o PathAndQuery(req.uri))

\* C4: with enforcement on, a request gets no canonical redirect exactly when
\* its Host value contains kingland.id and "www." and it came on a SECURE
\* connection, and exactly then the Route Dispatcher produces the response.
C4_NoRedirectExactly ==
    (Handled /\ Enforced)
        => LET canonical == /\ HasHost
                            /\ Contains(HostValue, "kingland.id")
                            /\ Contains(HostValue, "www.")
                            /\ protocol = "HTTPS"
           IN  /\ ~CanonicalRedirect(Out) <=> canonical
               /\ ByDispatcher(Out) <=> canonical

\* C5: the redirect rules are evaluated before any route: when a rule matches,
\* the response is 301 with the rule's target as location and an empty body,
\* and it is never the icon bytes, the landing page or the invite redirect.
C5_PolicyBeforeRoutes ==
    (Handled /\ Enforced /\ HasHost /\ to_str_ok(HostValue)
        /\ (\/ ~Contains(HostValue, "kingland.id")
            \/ ~Contains(HostValue, "www.")
            \/ protocol = "HTTP"))
        => /\ Out.kind = "response"
           /\ Out.status = 301
           /\ Out.location
                = Some(RedirectPolicy(HostValue, UriToString(req.uri), protocol)[1].target)
           /\ Out.location # Some(InviteUrl)
           /\ Out.body = ""
           /\ ~ByDispatcher(Out)

C5_Witness ==
    /\ Handled /\ Enforced
    /\ IsGet /\ req.uri.path = "/favicon" /\ req.uri.query = Some("t=apple")
    /\ req.host = Some("kingland.id")
    /\ Out.status = 301 /\ Out.site = "rule2"

\* The selection as the specification words it: the text after the first "t=",
\* cut at the first "&", compared without regard to case.
Occurs(s, pat, i) == i >= 1 /\ i + Len(pat) - 1 <= Len(s) /\ SubSeq(s, i, i + Len(pat) - 1) = pat

FirstOccurrence(s, pat) ==
    CHOOSE i \in 1..Len(s) : Occurs(s, pat, i) /\ \A k \in 1..(i - 1) : ~Occurs(s, pat, k)

ContainsIgnoringCase(text, literal) ==
    \E i \in 1..(Len(text) - Len(literal) + 1) :
        \A m \in 1..Len(literal) :
            LowerChar(SubSeq(text, i + m - 1, i + m - 1)) = SubSeq(literal, m, m)

SelectedValue(s) ==
    LET after == SubSeq(s, FirstOccurrence(s, "t=") + 2, Len(s))
    IN  IF \E i \in 1..Len(after) : Occurs(after, "&", i)
        THEN SubSeq(after, 1, FirstOccurrence(after, "&") - 1)
        ELSE after

SpecifiedVariant(q) ==
    IF q = None \/ ~(\E i \in 1..Len(q[1]) : Occurs(q[1], "t=", i)) THEN "Unrecognized"
    ELSE LET value == SelectedValue(q[1])
         IN  CASE ContainsIgnoringCase(value, "apple") -> "AppleTouch"
               [] ~ContainsIgnoringCase(value, "apple")
                    /\ ContainsIgnoringCase(value, "favicon16") -> "Favicon16"
               [] ~ContainsIgnoringCase(value, "apple")
                    /\ ~ContainsIgnoringCase(value, "favicon16")
                    /\ ContainsIgnoringCase(value, "favicon32") -> "Favicon32"
               [] OTHER -> "Unrecognized"

VariantName(v) == IF v = None THEN "Unrecognized" ELSE v[1]

\* C6: the favicon selection returns, for every optional query, the variant
\* of the first of "apple", "favicon16", "favicon32" contained (ignoring case)
\* in the text after the first "t=" up to the first "&", and Unrecognized
\* when the query is absent, has no "t=", or the text contains none of them.
C6_FaviconSelection ==
    pc = "selected" => VariantName(selected[1]) = SpecifiedVariant(query)

C6_Witness ==
    /\ pc = "selected"
    /\ query = Some("t=Favicon32apple")
    /\ selected = Some(Some("AppleTouch"))

\* C7: a GET to /favicon that the redirect rules do not redirect is answered
\* with status 200 and the selected variant's stored bytes, or with status 200
\* and the landing page when no variant is recognized.
C7_FaviconRoute ==
    (Handled /\ IsGet /\ req.uri.path = "/favicon" /\ ~CanonicalRedirect(Out))
        => LET variant == SpecifiedVariant(req.uri.query)
           IN  /\ Out.kind = "response"
               /\ Out.status = 200
               /\ variant = "AppleTouch" => Out.body = AppleTouchIconPng
               /\ variant = "Favicon16" => Out.body = Favicon16Png
               /\ variant = "Favicon32" => Out.body = Favicon32Png
               /\ variant = "Unrecognized" => IsLandingPage(Out)

\* C8: a request that the redirect rules do not redirect is answered with the
\* 301 to the invite URL and an empty body if and only if it is a GET to
\* /discord, /dc, /invite or /invites, whatever its query.
C8_InviteRoute ==
    (Handled /\ ~CanonicalRedirect(Out))
        => (IsInvite(Out)
              <=> (IsGet /\ req.uri.path \in {"/discord", "/dc", "/invite", "/invites"}))

\* C9: a request that the redirect rules do not redirect and that matches
\* neither the recognized-favicon route nor a GET invite route is answered
\* with status 200 and the landing page, trimmed of white space at both ends.
C9_DefaultRoute ==
    (Handled /\ ~CanonicalRedirect(Out)
        /\ ~(IsGet /\ req.uri.path = "/favicon"
               /\ SpecifiedVariant(req.uri.query) # "Unrecognized")
        /\ ~(IsGet /\ req.uri.path \in {"/discord", "/dc", "/invite", "/invites"}))
        => IsLandingPage(Out)

\* C10: every request handed to the handler is answered with a response of
\* status 200 or 301; the handler never ends without producing a response.
C10_AlwaysAnswered ==
    Handled => (Out.kind = "response" /\ Out.status \in {200, 301})

\* ---------------------------------------------------------------- properties of the process
\* C11: in a run whose certificate file has no parseable entry, startup fails
\* and no listening socket is ever bound.
C11_NoBindWithoutCertificate ==
    (pc = "server" /\ cert_file.entries = 0)
        => (listeners = {} /\ main_pc \notin {"spawn_http", "spawn_https", "loop"})

ConnectionError(c) ==
    /\ conns[c].state \in {"handshake", "open"}
    /\ conns'[c].state \in {"tls_failed", "framing_error"}

\* C12: a failed TLS handshake or a framing error on a connection ends that
\* connection's task only: the process keeps running, both accept loops and
\* the listeners are as before, and every other connection is untouched.
C12_ConnectionErrorIsolated ==
    [][\A c \in ConnIds :
          ConnectionError(c)
              => /\ main_pc' = main_pc
                 /\ main_pc' # "exited"
                 /\ acceptor' = acceptor
                 /\ listeners' = listeners
                 /\ \A d \in ConnIds \ {c} : conns'[d] = conns[d]]_vars

C12_Witness ==
    \E c, d \in ConnIds :
        /\ conns[c].state = "tls_failed"
        /\ conns[d].state = "open" /\ conns[d].inflight # None
        /\ acceptor["HTTP"].pc = "accept" /\ acceptor["HTTPS"].pc = "accept"
        /\ main_pc = "loop"

ConnectionEvent ==
    \E c \in ConnIds :
        /\ conns[c].state \in {"handshake", "open"}
        /\ conns'[c] # conns[c]

\* C14: an accept loop that has accepted a connection spawns its handler and
\* is listening again, and no event of an accepted connection (handshake
\* failure, framing error, peer close, handler panic) changes an accept loop.
C14_AcceptLoopGoesRound ==
    /\ \A p \in Protocol : (acceptor[p].pc = "spawn") ~> (acceptor[p].pc = "accept")
    /\ [][ConnectionEvent => acceptor' = acceptor]_vars

C14_Witness ==
    \E c \in ConnIds :
        /\ conns[c].state = "panicked"
        /\ acceptor["HTTP"].pc = "accept"
        /\ \E d \in ConnIds : conns[d].state = "open" /\ conns[d].port = HttpPort

FreeSlot == \E c \in ConnIds : conns[c].state = "none"

\* C15: an accept loop never waits for a handler: whatever the handlers are
\* doing, a running loop can take its next step (accept the next connection,
\* or spawn the task of the one it holds), and the handshake is a step of the
\* connection's task.
C15_AcceptNeverWaits ==
    \A p \in Protocol :
        (Alive /\ acceptor[p].pc \notin {"off", "panicked"})
            => /\ acceptor[p].pc \in {"accept", "spawn"}
               /\ acceptor[p].pc = "accept" /\ FreeSlot => ENABLED Accept(p)
               /\ acceptor[p].pc = "spawn" => ENABLED SpawnHandler(p)
               /\ \A c \in ConnIds : conns[c].state = "handshake" => acceptor[p].stream # c

C15_Witness ==
    /\ \A c \in ConnIds : conns[c].state = "handshake"
    /\ acceptor["HTTPS"].pc = "accept"

\* C13: in the debug build the response is the dispatcher's, whatever the Host
\* value and the protocol are, and the only 301 is the invite redirect.
C13_DebugFallsThrough ==
    (Handled /\ debug_assertions)
        => /\ Out = dispatch(req)
           /\ \A h \in Hosts, p \in Protocol : service([req EXCEPT !.host = Some(h)], p) = Out
           /\ (Out.kind = "response" /\ Out.status = 301) => IsInvite(Out)

PortProtocol(port) == IF port = HttpPort THEN "HTTP" ELSE "HTTPS"

Spawned(c) == conns[c].state \notin {"none", "accepted"}

\* C16: every request in hand carries the Protocol of the port its connection
\* was accepted on (80: HTTP, 443: HTTPS), every answer was computed with such
\* a Protocol, and a connection's task runs the TLS handshake exactly when its
\* port is 443.
C16_ProtocolOfAcceptor ==
    \A c \in ConnIds :
        /\ conns[c].inflight # None
               => conns[c].inflight[1].protocol = PortProtocol(conns[c].port)
        /\ Spawned(c)
               => /\ conns[c].task = PortProtocol(conns[c].port)
                  /\ conns[c].tls <=> (conns[c].port = HttpsPort)
        /\ conns[c].state \in {"handshake", "tls_failed"} => conns[c].port = HttpsPort

C16_Witness ==
    \E c, d \in ConnIds :
        /\ conns[c].port = HttpsPort /\ conns[c].state = "open" /\ conns[c].tls
        /\ conns[c].inflight # None /\ conns[c].inflight[1].protocol = "HTTPS"
        /\ conns[d].port = HttpPort /\ conns[d].state = "open" /\ ~conns[d].tls
        /\ conns[d].inflight # None /\ conns[d].inflight[1].protocol = "HTTP"

\* C17: a connection has at most one request in hand, the next is read only
\* when the one before is answered, and an open connection ends only when the
\* peer closes it or on a framing error.
C17_SequentialUntilClose ==
    [][\A c \in ConnIds :
          /\ (conns[c].state = "open" /\ conns'[c].state # "open")
                 => conns'[c].state \in {"closed", "framing_error"}
          /\ (conns'[c].inflight # None /\ conns'[c].inflight # conns[c].inflight)
                 => conns[c].inflight = None]_vars

RuleRank(site) == CASE site = "rule1" -> 1 [] site = "rule2" -> 2 [] site = "rule3" -> 3

\* C19: a client that follows the redirects is redirected at most 3 times, by
\* rule 1, rule 2 and rule 3 in that order and each at most once, and the
\* request that is not redirected is on https, to a host that contains both
\* the canonical domain and "www.", with the path and query it started with.
C19_RedirectChain ==
    pc \in {"follow", "arrived"}
        => /\ Len(trail) <= 3
           /\ \A i, j \in 1..Len(trail) : i < j => RuleRank(trail[i]) < RuleRank(trail[j])
           /\ pc = "arrived"
                  => /\ protocol = "HTTPS"
                     /\ Contains(req.host[1], MAIN_DOMAIN)
                     /\ Contains(req.host[1], "www.")
                     /\ UriPath(req.uri) = start[1].path
                     /\ UriQuery(req.uri) = start[1].query

AcceptedOn(p) ==
    \E c \in ConnIds : conns[c].state = "none" /\ conns'[c].port = ListenerPort(p)

\* C20: a failed accept ends its accept loop for good (the loop stays ended
\* and no connection is accepted on its port afterwards); the step of the
\* failure leaves `main`, the other loop and every connection as they were,
\* and `main` never leaves its final loop.
C20_AcceptFailureEndsOneLoop ==
    [][/\ \A p \in Protocol :
             /\ acceptor[p].pc = "panicked"
                    => (acceptor'[p].pc = "panicked" /\ ~AcceptedOn(p))
             /\ (acceptor[p].pc = "accept" /\ acceptor'[p].pc = "panicked")
                    => /\ main_pc' = main_pc
                       /\ conns' = conns
                       /\ \A q \in Protocol \ {p} : acceptor'[q] = acceptor[q]
       /\ main_pc = "loop" => main_pc' = "loop"]_vars

C20_Witness ==
    /\ acceptor["HTTP"].pc = "panicked"
    /\ acceptor["HTTPS"].pc = "accept"
    /\ main_pc = "loop"
    /\ HttpPort \notin listeners /\ HttpsPort \in listeners
    /\ \E c \in ConnIds : conns[c].port = HttpPort /\ conns[c].state = "open"
    /\ \E c \in ConnIds : conns[c].port = HttpsPort /\ conns[c].state = "handshake"

====
